---- MODULE Spec2Model ----
(***************************************************************************)
(* Model of ui/static/core/js/htmx-hooks.js: an IIFE that, when the global *)
(* window.htmx is truthy, registers three document listeners               *)
(*   htmx:send          -> documentElement.classList.add('hx-busy')        *)
(*   htmx:afterOnLoad   -> documentElement.classList.remove('hx-busy')     *)
(*   htmx:responseError -> console.warn('HTMX request failed',             *)
(*                                      e.detail.xhr && e.detail.xhr.status)*)
(* JavaScript values are modelled as tagged records, property reads and    *)
(* the && operator by what the language does (a read on undefined or null  *)
(* raises a TypeError; && yields its left operand when that is falsy).     *)
(***************************************************************************)
EXTENDS Integers, Sequences, FiniteSets, TLC

VARIABLES
    pc,          \* position of the IIFE: "load", "returned" (line 3), "registered" (line 15)
    htmx,        \* whether window.htmx is truthy right now
    listeners,   \* listeners this script has added to document, in order
    classList,   \* document.documentElement.classList, an ordered set of tokens
    classList0,  \* the class list the page started with
    log,         \* console output, oldest first
    errors,      \* exceptions thrown by listeners (reported, not propagated)
    events,      \* types of the events dispatched on document so far, oldest first
    last,        \* the event dispatched latest, None before the first
    loadedAt     \* Len(events) when the IIFE ran; -1 before

vars == <<pc, htmx, listeners, classList, classList0, log, errors, events, last, loadedAt>>

\* ---------------------------------------------------------------- bounds
MaxEvents == 3

\* ------------------------------------------------------- JavaScript values
Undefined == [t |-> "undefined"]
Null == [t |-> "null"]
False == [t |-> "boolean", b |-> FALSE]
Num(n) == [t |-> "number", n |-> n]
Str(s) == [t |-> "string", s |-> s]
Obj(props) == [t |-> "object", props |-> props]
TypeError == [t |-> "TypeError"]

EmptyObj == Obj(<<>>)

\* ToBoolean
Truthy(v) ==
    CASE v.t = "undefined" -> FALSE
      [] v.t = "null" -> FALSE
      [] v.t = "boolean" -> v.b
      [] v.t = "number" -> v.n # 0
      [] v.t = "string" -> v.s # ""
      [] OTHER -> TRUE

\* v[name]: TypeError on undefined/null, the property of an object, and
\* undefined for a missing property or a primitive without that property
Get(v, name) ==
    CASE v.t \in {"undefined", "null"} -> TypeError
      [] v.t = "object" ->
            IF name \in DOMAIN v.props THEN v.props[name] ELSE Undefined
      [] OTHER -> Undefined

\* --------------------------------------------------------------- the page
BusyClass == "hx-busy"
WarnMessage == "HTMX request failed"

SEND == "htmx:send"
AFTER_ON_LOAD == "htmx:afterOnLoad"
RESPONSE_ERROR == "htmx:responseError"

\* class lists a page may carry on <html> when the script runs
InitialClassLists ==
    { <<>>, <<"dark">>, <<BusyClass>>, <<"dark", BusyClass>>, <<BusyClass, "dark">> }

\* status codes a transport handle may carry
Statuses == {0, 404, 500}

\* values found under detail.xhr: absent values, falsy primitives, a truthy
\* primitive, a handle without status and handles with a status
XhrValues ==
    {Undefined, Null, False, Num(0), Str(""), Num(7), EmptyObj}
        \cup {Obj([status |-> Num(s)]) : s \in Statuses}

\* values of e.detail: undefined (Event), null (CustomEvent without detail),
\* an empty structure, and structures with an xhr field
Details ==
    {Undefined, Null, EmptyObj} \cup {Obj([xhr |-> x]) : x \in XhrValues}

Event(type, detail) == [type |-> type, detail |-> detail]

None == Event("", Undefined)

\* DOMTokenList.contains / add / remove on an ordered set
Contains(tokens, tok) == \E i \in 1..Len(tokens) : tokens[i] = tok

\* variant: add without the membership test
ClassListAdd_Dup(tokens, tok) == Append(tokens, tok)

ClassListAdd(tokens, tok) ==
    IF Contains(tokens, tok) THEN tokens ELSE Append(tokens, tok)

ClassListRemove(tokens, tok) == SelectSeq(tokens, LAMBDA c : c # tok)

\* ---------------------------------------------------------- the listeners
\* the page state a listener can touch
Page(cl, lg, er) == [classList |-> cl, log |-> lg, errors |-> er]

\* variant: classList.toggle in place of classList.add
OnSend_Toggle(st, e) ==
    [st EXCEPT !.classList =
        IF Contains(@, BusyClass) THEN ClassListRemove(@, BusyClass)
        ELSE ClassListAdd(@, BusyClass)]

\* line 7
OnSend(st, e) ==
    [st EXCEPT !.classList = ClassListAdd(@, BusyClass)]

\* variant: a class name other than the one that was added
OnAfterOnLoad_WrongToken(st, e) ==
    [st EXCEPT !.classList = ClassListRemove(@, "busy")]

\* line 10
OnAfterOnLoad(st, e) ==
    [st EXCEPT !.classList = ClassListRemove(@, BusyClass)]

\* variant: the handle itself in place of its status
StatusArg_Handle(e) ==
    LET x == Get(e.detail, "xhr")
    IN  IF x = TypeError THEN TypeError ELSE x

\* line 13, second argument: e.detail.xhr && e.detail.xhr.status
StatusArg(e) ==
    LET x == Get(e.detail, "xhr")
    IN  IF x = TypeError THEN TypeError
        ELSE IF Truthy(x) THEN Get(x, "status")
        ELSE x

\* variant: the error listener also clears the busy class
OnResponseError_ClearsBusy(st, e) ==
    LET v == StatusArg(e)
    IN  IF v = TypeError
        THEN [st EXCEPT !.errors = Append(@, "TypeError")]
        ELSE [st EXCEPT !.log = Append(@, [level |-> "warn",
                                           args |-> <<WarnMessage, v>>]),
                        !.classList = ClassListRemove(@, BusyClass)]

\* line 13: the arguments are evaluated first; a throw leaves no log entry
OnResponseError(st, e) ==
    LET v == StatusArg(e)
    IN  IF v = TypeError
        THEN [st EXCEPT !.errors = Append(@, "TypeError")]
        ELSE [st EXCEPT !.log = Append(@, [level |-> "warn",
                                           args |-> <<WarnMessage, v>>])]

Call(handler, st, e) ==
    CASE handler = "onSend" -> OnSend(st, e)
      [] handler = "onAfterOnLoad" -> OnAfterOnLoad(st, e)
      [] handler = "onResponseError" -> OnResponseError(st, e)

\* variant: the completion listener bound to an event that is never dispatched
Registered_WrongEvent(ls) ==
    ls \o << [type |-> SEND, handler |-> "onSend"],
             [type |-> "htmx:afterLoad", handler |-> "onAfterOnLoad"],
             [type |-> RESPONSE_ERROR, handler |-> "onResponseError"] >>

\* variant: the send listener added twice
Registered_Twice(ls) ==
    ls \o << [type |-> SEND, handler |-> "onSend"],
             [type |-> SEND, handler |-> "onSend"],
             [type |-> AFTER_ON_LOAD, handler |-> "onAfterOnLoad"],
             [type |-> RESPONSE_ERROR, handler |-> "onResponseError"] >>

\* lines 6-14: the three addEventListener calls, in order
Registered(ls) ==
    ls \o << [type |-> SEND, handler |-> "onSend"],
             [type |-> AFTER_ON_LOAD, handler |-> "onAfterOnLoad"],
             [type |-> RESPONSE_ERROR, handler |-> "onResponseError"] >>

\* document.dispatchEvent: every listener of the event's type, in order of
\* registration; an exception in one listener does not stop the others
RECURSIVE Invoke(_, _, _)
Invoke(ls, st, e) ==
    IF ls = <<>> THEN st
    ELSE Invoke(Tail(ls),
                IF Head(ls).type = e.type THEN Call(Head(ls).handler, st, e)
                ELSE st,
                e)

\* ------------------------------------------------------------------ state
Init ==
    /\ pc = "load"
    /\ htmx \in BOOLEAN
    /\ listeners = <<>>
    /\ classList0 \in InitialClassLists
    /\ classList = classList0
    /\ log = <<>>
    /\ errors = <<>>
    /\ events = <<>>
    /\ last = None
    /\ loadedAt = -1

\* variant: the guard of line 3 dropped
Load_Unguarded ==
    /\ pc = "load"
    /\ pc' = (IF ~htmx THEN "returned" ELSE "registered")
    /\ listeners' = Registered(listeners)
    /\ loadedAt' = Len(events)
    /\ UNCHANGED <<htmx, classList, classList0, log, errors, events, last>>

\* lines 2-15: the IIFE runs once
Load ==
    /\ pc = "load"
    /\ IF ~htmx
       THEN /\ pc' = "returned"
            /\ listeners' = listeners
       ELSE /\ pc' = "registered"
            /\ listeners' = Registered(listeners)
    /\ loadedAt' = Len(events)
    /\ UNCHANGED <<htmx, classList, classList0, log, errors, events, last>>

\* document.dispatchEvent(e)
Dispatch(e) ==
    /\ events' = Append(events, e.type)
    /\ last' = e
    /\ LET st == Invoke(listeners, Page(classList, log, errors), e)
       IN  /\ classList' = st.classList
           /\ log' = st.log
           /\ errors' = st.errors
    /\ UNCHANGED <<pc, htmx, listeners, classList0, loadedAt>>

DispatchSend ==
    /\ Len(events) < MaxEvents
    /\ Dispatch(Event(SEND, Undefined))

DispatchAfterOnLoad ==
    /\ Len(events) < MaxEvents
    /\ Dispatch(Event(AFTER_ON_LOAD, Undefined))

DispatchResponseError ==
    /\ Len(events) < MaxEvents
    /\ \E d \in Details : Dispatch(Event(RESPONSE_ERROR, d))

\* the library script defines window.htmx, or something deletes it
HtmxAppears ==
    /\ ~htmx
    /\ htmx' = TRUE
    /\ UNCHANGED <<pc, listeners, classList, classList0, log, errors, events, last, loadedAt>>

HtmxDisappears ==
    /\ htmx
    /\ htmx' = FALSE
    /\ UNCHANGED <<pc, listeners, classList, classList0, log, errors, events, last, loadedAt>>

Next ==
    \/ Load
    \/ DispatchSend
    \/ DispatchAfterOnLoad
    \/ DispatchResponseError
    \/ HtmxAppears
    \/ HtmxDisappears

Spec == Init /\ [][Next]_vars

\* ------------------------------------------------------------ observations
Busy == Contains(classList, BusyClass)

\* the types of the events dispatched since the IIFE ran
PostLoad ==
    IF loadedAt < 0 THEN <<>> ELSE SubSeq(events, loadedAt + 1, Len(events))

\* the type of the k-th latest event since load, "" when there is none
TypeFromEnd(k) ==
    IF Len(PostLoad) > k THEN PostLoad[Len(PostLoad) - k] ELSE ""

\* the step dispatches e on document
Dispatched(e) == events' = Append(events, e.type) /\ last' = e

Warn(v) == [level |-> "warn", args |-> <<WarnMessage, v>>]

\* the latest htmx:send / htmx:afterOnLoad since load, "" when there is none
RECURSIVE LastToggle(_)
LastToggle(es) ==
    IF es = <<>> THEN ""
    ELSE IF es[Len(es)] \in {SEND, AFTER_ON_LOAD} THEN es[Len(es)]
    ELSE LastToggle(SubSeq(es, 1, Len(es) - 1))

\* details the error listener is given with nothing to report
EmptyDetails == {Undefined, Null, EmptyObj}

\* details that are a structure whose transport handle is missing or falsy,
\* or present without a status field
NoStatusDetails ==
    {EmptyObj} \cup
    {Obj([xhr |-> x]) : x \in {y \in XhrValues : ~Truthy(y)} \cup {EmptyObj}}

\* the values that mark an absent status
AbsentMarkers == {Undefined, Null}

\* ------------------------------------------------------------------ claims

\* C1: with the handle present at load, the busy class is present right
\* after an htmx:send event and absent right after an htmx:afterOnLoad
\* event, whatever the class list held before.
C1_BusyFollowsLastEvent ==
    pc = "registered" =>
        /\ TypeFromEnd(0) = SEND => Busy
        /\ TypeFromEnd(0) = AFTER_ON_LOAD => ~Busy

C1_Witness ==
    /\ pc = "registered"
    /\ Contains(classList0, BusyClass)
    /\ TypeFromEnd(1) = SEND
    /\ TypeFromEnd(0) = AFTER_ON_LOAD
    /\ ~Busy

\* C2: an htmx:responseError event whose detail is empty or undefined (or
\* null) yields exactly one warning entry carrying the absent marker, and the
\* listener does not throw.
C2_EmptyDetailWarnsOnce ==
    [][\A d \in EmptyDetails :
          (pc = "registered" /\ Dispatched(Event(RESPONSE_ERROR, d))) =>
              /\ errors' = errors
              /\ log' = Append(log, Warn(Undefined))]_vars

\* C3: with the handle absent at load nothing is registered and nothing is
\* thrown, so no later event changes the class list or the log.
C3_AbsentHandleInert ==
    pc = "returned" =>
        /\ listeners = <<>>
        /\ classList = classList0
        /\ log = <<>>
        /\ errors = <<>>

C3_Witness ==
    /\ pc = "returned"
    /\ Len(PostLoad) = 3
    /\ \A t \in {SEND, AFTER_ON_LOAD, RESPONSE_ERROR} :
          \E i \in 1..Len(PostLoad) : PostLoad[i] = t

\* C4: an htmx:responseError event whose detail holds a transport handle with
\* status s yields exactly one warning entry, made of the text
\* "HTMX request failed" and s, for every s.
C4_StatusIsLogged ==
    [][\A s \in Statuses :
          (pc = "registered" /\
           Dispatched(Event(RESPONSE_ERROR, Obj([xhr |-> Obj([status |-> Num(s)])])))) =>
              /\ errors' = errors
              /\ log' = Append(log, [level |-> "warn",
                                     args |-> <<"HTMX request failed", Num(s)>>])]_vars

C4_Witness ==
    /\ pc = "registered"
    /\ last = Event(RESPONSE_ERROR, Obj([xhr |-> Obj([status |-> Num(500)])]))
    /\ TypeFromEnd(0) = RESPONSE_ERROR
    /\ Len(log) = 1
    /\ log[1].args = <<"HTMX request failed", Num(500)>>

\* C5: after send, send, afterOnLoad the busy class is absent: one completed
\* event clears it however many sent events came before.
C5_OneCompletionClears ==
    (/\ pc = "registered"
     /\ TypeFromEnd(2) = SEND
     /\ TypeFromEnd(1) = SEND
     /\ TypeFromEnd(0) = AFTER_ON_LOAD) => ~Busy

C5_Witness ==
    /\ pc = "registered"
    /\ PostLoad = <<SEND, SEND, AFTER_ON_LOAD>>
    /\ ~Contains(classList0, BusyClass)
    /\ classList = classList0

\* C6: htmx:send with the busy class present, and htmx:afterOnLoad with it
\* absent, leave the class list as it was.
C6_Idempotent ==
    [][/\ (pc = "registered" /\ Busy /\ Dispatched(Event(SEND, Undefined)))
            => classList' = classList
       /\ (pc = "registered" /\ ~Busy /\ Dispatched(Event(AFTER_ON_LOAD, Undefined)))
            => classList' = classList]_vars

C6_Witness ==
    /\ pc = "registered"
    /\ PostLoad = <<SEND, SEND>>
    /\ classList0 = <<"dark">>
    /\ classList = <<"dark", BusyClass>>

\* C7: an htmx:responseError event whose detail is a structure with the
\* transport handle missing or falsy, or present without a status field,
\* yields exactly one warning entry with the fixed message and the absent
\* marker, never a number, and the listener does not throw.
C7_NoStatusWarnsAbsent ==
    [][\A d \in NoStatusDetails :
          (pc = "registered" /\ Dispatched(Event(RESPONSE_ERROR, d))) =>
              /\ errors' = errors
              /\ \E m \in AbsentMarkers : log' = Append(log, Warn(m))]_vars

\* C8: an htmx:responseError event leaves the class list alone; after an
\* htmx:send followed only by error events the busy class is still present.
C8_ErrorKeepsClassList ==
    /\ [][(\E d \in Details : Dispatched(Event(RESPONSE_ERROR, d)))
              => classList' = classList]_vars
    /\ []((pc = "registered" /\ LastToggle(PostLoad) = SEND) => Busy)

C8_Witness ==
    /\ pc = "registered"
    /\ PostLoad = <<SEND, RESPONSE_ERROR, RESPONSE_ERROR>>
    /\ ~Contains(classList0, BusyClass)
    /\ Busy

\* C9: the handle is looked at once, when the script runs: present, the
\* three listeners are registered once each and stay whatever the handle does
\* later; absent, no listener is ever registered.
C9_RegisteredOnceAtLoad ==
    /\ [](pc = "registered" =>
            /\ Len(listeners) = 3
            /\ \A t \in {SEND, AFTER_ON_LOAD, RESPONSE_ERROR} :
                  Cardinality({i \in 1..Len(listeners) : listeners[i].type = t}) = 1)
    /\ [](pc \in {"load", "returned"} => listeners = <<>>)
    /\ [][pc = "load" /\ pc' # "load" =>
              pc' = (IF htmx THEN "registered" ELSE "returned")]_vars
    /\ [][pc # "load" => (pc' = pc /\ listeners' = listeners)]_vars
    /\ [][(pc = "registered" /\ Dispatched(Event(SEND, Undefined))) => Busy']_vars

C9_Witness ==
    /\ pc = "registered"
    /\ ~htmx
    /\ ~Contains(classList0, BusyClass)
    /\ TypeFromEnd(0) = SEND
    /\ last.type = SEND
    /\ Busy

\* C10: with the handle present at load and the busy class absent then, the
\* class is present exactly when the latest of the send / afterOnLoad events
\* since load is a send; it appears only on a send step and goes only on an
\* afterOnLoad step.
C10_BusyIffLastToggleIsSend ==
    /\ []((pc = "registered" /\ ~Contains(classList0, BusyClass)) =>
              (Busy <=> LastToggle(PostLoad) = SEND))
    /\ [][/\ (~Busy /\ Busy') => Dispatched(Event(SEND, Undefined))
          /\ (Busy /\ ~Busy') => Dispatched(Event(AFTER_ON_LOAD, Undefined))]_vars

C10_Witness ==
    /\ pc = "registered"
    /\ ~Contains(classList0, BusyClass)
    /\ PostLoad = <<SEND, RESPONSE_ERROR, AFTER_ON_LOAD>>
    /\ ~Busy

====
